---- MODULE Spec2Model ----
(***************************************************************************)
(* SingleThreadedAgentRuntime (autogen_core): the message queue, the       *)
(* dispatcher loop (_process_next), the intervention pipeline, the three   *)
(* delivery tasks (_process_send / _process_publish / _process_response),  *)
(* the lazy agent cache (_get_agent) and the run context (start / stop /   *)
(* stop_when_idle).                                                        *)
(*                                                                         *)
(* One TLA+ step is one run of a coroutine between two suspension points   *)
(* of the asyncio event loop.  User code (agent handlers, intervention     *)
(* handlers, factories) is a nondeterministic choice of its outcome.       *)
(***************************************************************************)
EXTENDS Integers, Sequences, FiniteSets, TLC

\* ------------------------------------------------------------- bounds
\* Messages (send_message / publish_message calls) over the runtime's life.
MaxMsgs == 2
\* Longest intervention_handlers list the runtime is constructed with.
MaxHandlers == 2
\* Largest value of an agent's observable state (0 is a fresh instance's).
MaxState == 1
\* Most calls of one agent's factory made for the snapshot operations.
MaxFactoryCalls == 2
\* register() calls whose subscriptions are produced by a deferred callable.
MaxRegCalls == 2

\* ------------------------------------------------------------- values
Types == {"a", "b"}
AgentIds == [type : Types, key : {"default"}]
\* sender=None
NoSender == [type |-> "None", key |-> "None"]
Senders == AgentIds \cup {NoSender}
Msgs == 1..MaxMsgs
\* The message a caller hands to send_message / publish_message.  A message
\* is the sequence of the transformations applied to it so far.
Payload == <<0>>

\* InterventionHandler.on_send / on_publish / on_response of the i-th
\* handler, when it returns a message: a transformation that depends on both
\* the handler and its argument.
OnSend(i, m) == Append(m, i)
OnPublish(i, m) == Append(m, i)
OnResponse(i, m) == Append(m, 10 + i)
\* Agent.on_message's reply to the message delivered to it.
Reply(m) == Append(m, 9)

InterventionOutcomes == {"pass", "drop", "raise"}

VARIABLES
  factories,      \* _agent_factories: the registered type names
  instances,      \* _instantiated_agents: the cached AgentIds
  subscriptions,  \* _subscription_manager: subscribed types, in order
  nHandlers,      \* len(_intervention_handlers); 0 models None
  mismatched,     \* types bound by register_factory to a factory whose
                  \* instances are not of the expected class
  apiError,       \* the last registration call that raised: <<error, type>>
  rcall,          \* per register() call with deferred subscriptions: where
                  \* it is, and for which type
  binder,         \* _agent_factories[type]: the register() call whose
                  \* factory the type is bound to, 0 for any other factory
  astate,         \* per AgentId: the observable state of its agent
  snap,           \* the save_state() / load_state() call in progress, and
                  \* the outcome of the last one that ended
  queue,          \* _message_queue: the envelopes, <<variant, msg id>>
  unfinished,     \* Queue._unfinished_tasks
  shutdown,       \* Queue._is_shutdown
  runContext,     \* _run_context is not None
  stopped,        \* RunContext._stopped
  dpc,            \* the dispatcher task (RunContext._run_task)
  dcur,           \* the envelope the dispatcher holds (its msg id), 0 if none
  dmsg,           \* _process_next's local `message`, bound by the match
  hidx,           \* index of the next intervention handler to run
  spc,            \* the caller of stop() / stop_when_idle()
  skind,          \* which of the two it called
  nextId,         \* next fresh message id
  env,            \* per message: the envelope's fields
  token,          \* per message: CancellationToken._cancelled
  future,         \* per message: the result handle (asyncio Future)
  tpc,            \* per message: where its envelope / delivery task is
  precs,          \* per Publish: `recipients` of _process_publish
  pidx,           \* per Publish: position of the for loop in recipients
  pphase,         \* per Publish: resolving the sender or the recipient
  hstate,         \* per Publish and agent: its _on_message coroutine
  \* history (observers; the program does not read them)
  factoryCalls,   \* per AgentId: invocations of its type's factory
  cacheWrites,    \* per AgentId: writes of _instantiated_agents[id]
  puts,           \* successful put() calls on the current queue
  dones,          \* successful task_done() calls on the current queue
  marked,         \* per message: task_done() calls made for its envelopes
  invalid,        \* per message: a settle was attempted on a done future
  invoked,        \* per message: agents whose on_message was called for it
  ilog,           \* per message: the intervention handler calls made
  cancelledAt,    \* per message: where its envelope was when cancel() ran
  lastStop,       \* the last stop*() call that ended, or the last lifecycle
                  \* call that was refused: <<kind, puts, dones>>
  idleFrom,       \* nextId when the stop_when_idle() call in progress was
                  \* made (the messages below it were sent before the call)
  qFirst          \* nextId when _message_queue was last assigned (the
                  \* messages below it were put on an earlier queue)

regVars == <<mismatched, apiError, rcall, binder>>
stVars == <<astate, snap>>
cfgVars == <<factories, instances, subscriptions, nHandlers, regVars, stVars>>
qVars == <<queue, unfinished, shutdown, puts, dones>>
dVars == <<dpc, dcur, dmsg, hidx>>
lifeVars == <<runContext, stopped, skind, lastStop, idleFrom, qFirst>>
msgVars == <<nextId, env, token, cancelledAt>>
pubVars == <<precs, pidx, pphase, hstate>>
agentHist == <<factoryCalls, cacheWrites>>
vars == <<factories, instances, subscriptions, nHandlers, mismatched,
          apiError, rcall, binder, astate, snap, queue, unfinished,
          shutdown, runContext, stopped, dpc, dcur, dmsg, hidx, spc, skind,
          nextId, env, token, future, tpc, precs, pidx, pphase, hstate,
          factoryCalls, cacheWrites, puts, dones, marked, invalid, invoked,
          ilog, cancelledAt, lastStop, idleFrom, qFirst>>

\* str(agent_id) and AgentId.from_str: the string form is "type/key".
ToStr(id) == <<id.type, "/", id.key>>
FromStr(k) == [type |-> k[1], key |-> k[3]]
Keys == {ToStr(a) : a \in AgentIds}
\* A state map: per key the sub-map stored under it, or Absent.
Absent == 0 - 1
StateMaps == [Keys -> (0..MaxState) \cup {Absent}]
EmptyMap == [k \in Keys |-> Absent]
KeysOf(map) == {k \in Keys : map[k] # Absent}
NoSnap == [pc |-> "idle", base |-> {}, todo |-> {}, acc |-> EmptyMap,
           saved |-> EmptyMap, res |-> "none", inp |-> EmptyMap,
           loaded |-> {}, dirty |-> FALSE, pre |-> [a \in AgentIds |-> 0]]

RegCalls == 1..MaxRegCalls
NoCall == [pc |-> "none", type |-> "none"]

NoEnv == [kind |-> "none", recipient |-> NoSender, sender |-> NoSender,
          message |-> <<>>, response |-> <<>>]
NoFuture == [st |-> "none", val |-> <<>>, err |-> "none"]
PendingFuture == [st |-> "pending", val |-> <<>>, err |-> "none"]

\* ------------------------------------------------------------- futures
\* Future.set_exception / set_result raise InvalidStateError unless the
\* future is pending; Future.cancel() is a no-op on a done future.
IsPending(f) == f.st = "pending"
WithException(f, e) == [st |-> "exception", val |-> <<>>, err |-> e]
WithResult(f, v) == [st |-> "result", val |-> v, err |-> "none"]
Cancelled(f) == IF f.st = "pending"
                THEN [st |-> "cancelled", val |-> <<>>, err |-> "none"]
                ELSE f

\* ------------------------------------------------------------- queue
\* Queue.task_done(): ValueError when called more often than put().
TaskDoneOK == unfinished > 0
\* A successful task_done() for message m's envelope; reaching zero sets
\* the _finished event, which wakes a caller blocked in join().
DoTaskDone(m) ==
  /\ unfinished' = unfinished - 1
  /\ dones' = dones + 1
  /\ marked' = [marked EXCEPT ![m] = @ + 1]
  /\ spc' = IF unfinished = 1 /\ spc = "join" THEN "joined" ELSE spc
NoTaskDone == UNCHANGED <<unfinished, dones, marked, spc>>

\* ------------------------------------------------------------- Init
Init ==
  /\ factories = {}
  /\ instances = {}
  /\ subscriptions = <<>>
  /\ nHandlers \in 0..MaxHandlers
  /\ mismatched = {}
  /\ apiError = <<"none", "none">>
  /\ rcall = [c \in RegCalls |-> NoCall]
  /\ binder = [t \in Types |-> 0]
  /\ astate = [a \in AgentIds |-> 0]
  /\ snap = NoSnap
  /\ queue = <<>>
  /\ unfinished = 0
  /\ shutdown = FALSE
  /\ runContext = FALSE
  /\ stopped = FALSE
  /\ dpc = "none"
  /\ dcur = 0
  /\ dmsg = <<>>
  /\ hidx = 0
  /\ spc = "none"
  /\ skind = "none"
  /\ nextId = 1
  /\ env = [m \in Msgs |-> NoEnv]
  /\ token = [m \in Msgs |-> FALSE]
  /\ future = [m \in Msgs |-> NoFuture]
  /\ tpc = [m \in Msgs |-> "none"]
  /\ precs = [m \in Msgs |-> <<>>]
  /\ pidx = [m \in Msgs |-> 0]
  /\ pphase = [m \in Msgs |-> "none"]
  /\ hstate = [m \in Msgs |-> [a \in AgentIds |-> "none"]]
  /\ factoryCalls = [a \in AgentIds |-> 0]
  /\ cacheWrites = [a \in AgentIds |-> 0]
  /\ puts = 0
  /\ dones = 0
  /\ marked = [m \in Msgs |-> 0]
  /\ invalid = [m \in Msgs |-> FALSE]
  /\ invoked = [m \in Msgs |-> {}]
  /\ ilog = [m \in Msgs |-> <<>>]
  /\ cancelledAt = [m \in Msgs |-> "none"]
  /\ lastStop = <<"none", 0, 0>>
  /\ idleFrom = 0
  /\ qFirst = 1

\* ------------------------------------------------------------- setup API
NeverRegistered(t) == FALSE
\* The check of register and register_factory: the type is already bound.
AlreadyRegistered(t) == t \in factories

\* register(type, factory) / register_factory(type, ...): bind a new type.
Register(t) ==
  /\ ~AlreadyRegistered(t)
  /\ factories' = factories \cup {t}
  /\ UNCHANGED <<instances, subscriptions, nHandlers, regVars, stVars, qVars, dVars, lifeVars,
                 spc, msgVars, future, tpc, pubVars, agentHist, marked,
                 invalid, invoked, ilog>>

\* register(type, factory, subscriptions=[sub]): the subscription, which maps
\* the topic to the agent (type, "default"), is installed and the type bound.
RegisterSubscribed(t) ==
  /\ ~AlreadyRegistered(t)
  /\ \A i \in 1..Len(subscriptions) : subscriptions[i] # t
  /\ subscriptions' = Append(subscriptions, t)
  /\ factories' = factories \cup {t}
  /\ UNCHANGED <<instances, nHandlers, regVars, stVars, qVars, dVars, lifeVars, spc, msgVars,
                 future, tpc, pubVars, agentHist, marked, invalid, invoked,
                 ilog>>

\* register_factory(type, factory, expected_class) with a factory whose
\* instances are not of expected_class: the wrapper that compares the
\* classes is bound to the type; it runs when an agent is first resolved.
RegisterFactoryMismatch(t) ==
  /\ ~AlreadyRegistered(t)
  /\ factories' = factories \cup {t}
  /\ mismatched' = mismatched \cup {t}
  /\ UNCHANGED <<instances, subscriptions, nHandlers, apiError, rcall, binder,
                 stVars, qVars, dVars,
                 lifeVars, spc, msgVars, future, tpc, pubVars, agentHist,
                 marked, invalid, invoked, ilog>>

\* register / register_factory for a type that is already bound: ValueError
\* before anything is assigned.
RegisterRefused(t) ==
  /\ AlreadyRegistered(t)
  /\ apiError' = <<"DuplicateType", t>>
  /\ UNCHANGED <<factories, instances, subscriptions, nHandlers, mismatched,
                 rcall, binder, stVars, qVars, dVars, lifeVars, spc, msgVars, future, tpc, pubVars,
                 agentHist, marked, invalid, invoked, ilog>>

\* register(type, factory, subscriptions=f) where f() returns an awaitable:
\* the type is checked, then the call suspends in
\* `await subscriptions_list_result`.
RegisterBegin(c, t) ==
  /\ rcall[c].pc = "none"
  /\ ~AlreadyRegistered(t)
  /\ rcall' = [rcall EXCEPT ![c] = [pc |-> "subs", type |-> t]]
  /\ UNCHANGED <<factories, instances, subscriptions, nHandlers, mismatched,
                 apiError, binder, stVars, qVars, dVars, lifeVars, spc,
                 msgVars, future, tpc, pubVars, agentHist, marked, invalid,
                 invoked, ilog>>

\* How the rest of such a call goes: the subscription produced (which maps
\* the topic to the agent (type, "default")) is installed, or producing or
\* installing it raises (a duplicate subscription id is rejected).
SubscriptionOutcomes == {"installed", "raise"}
Subscribed(t) == \E i \in 1..Len(subscriptions) : subscriptions[i] = t

\* The call resumes: add_subscription for what was produced, then
\* `self._agent_factories[type] = agent_factory`, without a second look at
\* the map.  A further subscription for an agent that is already a
\* recipient of the topic leaves the recipients as they are.
RegisterResume(c) ==
  /\ rcall[c].pc = "subs"
  /\ LET t == rcall[c].type
     IN \E out \in SubscriptionOutcomes :
          IF out = "raise"
          THEN /\ rcall' = [rcall EXCEPT ![c].pc = "raised"]
               /\ apiError' = <<"SubscriptionError", t>>
               /\ UNCHANGED <<factories, subscriptions, binder>>
          ELSE /\ rcall' = [rcall EXCEPT ![c].pc = "done"]
               /\ subscriptions' = IF Subscribed(t) THEN subscriptions
                                   ELSE Append(subscriptions, t)
               /\ factories' = factories \cup {t}
               /\ binder' = [binder EXCEPT ![t] = c]
               /\ UNCHANGED apiError
  /\ UNCHANGED <<instances, nHandlers, mismatched, stVars, qVars, dVars,
                 lifeVars, spc, msgVars, future, tpc, pubVars, agentHist,
                 marked, invalid, invoked, ilog>>

\* add_subscription(sub) for a subscription that maps the topic to the
\* agent (t, "default"); a duplicate id is rejected.
AddSubscription(t) ==
  /\ \A i \in 1..Len(subscriptions) : subscriptions[i] # t
  /\ subscriptions' = Append(subscriptions, t)
  /\ UNCHANGED <<factories, instances, nHandlers, regVars, stVars, qVars, dVars, lifeVars,
                 spc, msgVars, future, tpc, pubVars, agentHist, marked,
                 invalid, invoked, ilog>>

\* SubscriptionManager.get_subscribed_recipients(topic_id)
Recipients ==
  [i \in 1..Len(subscriptions) |-> [type |-> subscriptions[i], key |-> "default"]]

\* ------------------------------------------------------------- messaging API
NeverFailsFast(r) == FALSE
\* send_message's check at enqueue time: the recipient's type is unknown.
FailsFast(r) == r.type \notin factories

\* send_message: create the future, fail it at once if the recipient's type
\* is unknown, put the envelope (QueueShutDown if the queue is shut down),
\* link the token to the future.
SendMessage(r) ==
  /\ nextId <= MaxMsgs
  /\ LET m == nextId
         f == IF FailsFast(r)
              THEN WithException(PendingFuture, "RecipientNotFound")
              ELSE PendingFuture
     IN /\ nextId' = m + 1
        /\ env' = [env EXCEPT ![m] = [kind |-> "send", recipient |-> r,
                                      sender |-> NoSender, message |-> Payload,
                                      response |-> <<>>]]
        /\ future' = [future EXCEPT ![m] = f]
        /\ IF shutdown
           THEN /\ tpc' = [tpc EXCEPT ![m] = "rejected"]
                /\ UNCHANGED <<queue, unfinished, puts>>
           ELSE /\ tpc' = [tpc EXCEPT ![m] = "queued"]
                /\ queue' = Append(queue, <<"send", m>>)
                /\ unfinished' = unfinished + 1
                /\ puts' = puts + 1
  /\ UNCHANGED <<cfgVars, shutdown, dones, dVars, lifeVars, spc, token,
                 cancelledAt, pubVars, agentHist, marked, invalid, invoked, ilog>>

\* publish_message: put the envelope.
PublishMessage(s) ==
  /\ nextId <= MaxMsgs
  /\ LET m == nextId
     IN /\ nextId' = m + 1
        /\ env' = [env EXCEPT ![m] = [kind |-> "publish", recipient |-> NoSender,
                                      sender |-> s, message |-> Payload,
                                      response |-> <<>>]]
        /\ IF shutdown
           THEN /\ tpc' = [tpc EXCEPT ![m] = "rejected"]
                /\ UNCHANGED <<queue, unfinished, puts>>
           ELSE /\ tpc' = [tpc EXCEPT ![m] = "queued"]
                /\ queue' = Append(queue, <<"publish", m>>)
                /\ unfinished' = unfinished + 1
                /\ puts' = puts + 1
  /\ UNCHANGED <<cfgVars, shutdown, dones, dVars, lifeVars, spc, token, future,
                 cancelledAt, pubVars, agentHist, marked, invalid, invoked, ilog>>

\* CancellationToken.cancel() on a Send's token: the callback installed by
\* link_future cancels the future (a no-op when it is already done).
Cancel(m) ==
  /\ env[m].kind = "send"
  /\ tpc[m] # "rejected"
  /\ ~token[m]
  /\ token' = [token EXCEPT ![m] = TRUE]
  /\ cancelledAt' = [cancelledAt EXCEPT ![m] =
                        IF tpc[m] \in {"queued", "handler"} THEN tpc[m] ELSE "later"]
  /\ future' = [future EXCEPT ![m] = Cancelled(@)]
  /\ UNCHANGED <<cfgVars, qVars, dVars, lifeVars, spc, nextId, env, tpc,
                 pubVars, agentHist, marked, invalid, invoked, ilog>>

\* ------------------------------------------------------------- lifecycle
NeverStarted == FALSE
\* start()'s check: _run_context is not None.
AlreadyStarted == runContext
\* The check of stop(), stop_when_idle() and stop_when(): _run_context is None.
NotStarted == ~runContext
StopCalls == {"now", "idle", "when"}
Refused(k) == IF k = "now" THEN "stop_refused"
              ELSE IF k = "idle" THEN "stop_when_idle_refused"
              ELSE "stop_when_refused"

\* start(): create the RunContext, which launches the dispatcher task.
Start ==
  /\ ~AlreadyStarted
  /\ runContext' = TRUE
  /\ stopped' = FALSE
  /\ dpc' = "get"
  /\ UNCHANGED <<cfgVars, qVars, dcur, dmsg, hidx, spc, skind, lastStop,
                 idleFrom, qFirst, msgVars, future, tpc, pubVars, agentHist, marked, invalid,
                 invoked, ilog>>

\* start() on a started runtime: RuntimeError before anything is assigned.
StartRefused ==
  /\ AlreadyStarted
  /\ lastStop' = <<"start_refused", puts, dones>>
  /\ UNCHANGED <<cfgVars, qVars, dVars, runContext, stopped, skind, spc,
                 idleFrom, qFirst, msgVars, future, tpc, pubVars, agentHist, marked, invalid,
                 invoked, ilog>>

\* stop(), stop_when_idle() or stop_when() on a runtime that is not
\* started: RuntimeError before anything is assigned.
StopRefused(k) ==
  /\ NotStarted
  /\ lastStop' = <<Refused(k), puts, dones>>
  /\ UNCHANGED <<cfgVars, qVars, dVars, runContext, stopped, skind, spc,
                 idleFrom, qFirst, msgVars, future, tpc, pubVars, agentHist, marked, invalid,
                 invoked, ilog>>

StaysQueued(m) == tpc[m]
\* Where an envelope discarded by shutdown(immediate=True) ends.
Discarded(m) == IF <<"response", m>> \in {queue[i] : i \in 1..Len(queue)}
                THEN "rdiscarded" ELSE "discarded"
InQueue(m) == \E i \in 1..Len(queue) : queue[i][2] = m

\* RunContext.stop() up to its await: _stopped.set() and
\* Queue.shutdown(immediate=True), which drops the queued envelopes and
\* takes each off the unfinished count.
ShutdownNow ==
  /\ stopped' = TRUE
  /\ shutdown' = TRUE
  /\ queue' = <<>>
  /\ unfinished' = IF unfinished > Len(queue) THEN unfinished - Len(queue) ELSE 0
  /\ tpc' = [m \in Msgs |-> IF InQueue(m) THEN Discarded(m) ELSE tpc[m]]

\* stop(): RunContext.stop() up to `await self._run_task`.
Stop ==
  /\ ~NotStarted
  /\ spc = "none"
  /\ ShutdownNow
  /\ spc' = "await_run"
  /\ skind' = "now"
  /\ UNCHANGED <<cfgVars, puts, dones, runContext, dVars, lastStop, idleFrom,
                 qFirst, msgVars,
                 future, pubVars, agentHist, marked, invalid, invoked, ilog>>

\* stop_when_idle(): RunContext.stop_when_idle() up to its first suspension.
\* Queue.join() returns at once when nothing is unfinished, and otherwise
\* waits for the _finished event.
StopWhenIdle ==
  /\ ~NotStarted
  /\ spc = "none"
  /\ skind' = "idle"
  /\ idleFrom' = nextId
  /\ IF unfinished = 0
     THEN /\ ShutdownNow
          /\ spc' = "await_run"
     ELSE /\ spc' = "join"
          /\ UNCHANGED <<stopped, shutdown, queue, unfinished, tpc>>
  /\ UNCHANGED <<cfgVars, puts, dones, runContext, dVars, lastStop, qFirst,
                 msgVars,
                 future, pubVars, agentHist, marked, invalid, invoked, ilog>>

\* stop_when_idle() resumes after join(): the event was set, the caller runs
\* again when the event loop reaches it.
StopAfterJoin ==
  /\ spc = "joined"
  /\ ShutdownNow
  /\ spc' = "await_run"
  /\ UNCHANGED <<cfgVars, puts, dones, runContext, dVars, skind, lastStop,
                 idleFrom, qFirst, msgVars, future, pubVars, agentHist, marked, invalid, invoked,
                 ilog>>

\* stop*() after `await self._run_task` when the dispatcher returned:
\* _run_context = None and _message_queue = Queue().
StopReturn ==
  /\ spc = "await_run"
  /\ dpc = "exited"
  /\ runContext' = FALSE
  /\ queue' = <<>>
  /\ unfinished' = 0
  /\ shutdown' = FALSE
  /\ puts' = 0
  /\ dones' = 0
  /\ lastStop' = <<skind, puts, dones>>
  /\ idleFrom' = 0
  /\ qFirst' = nextId
  /\ spc' = "none"
  /\ skind' = "none"
  /\ dpc' = "none"
  /\ UNCHANGED <<cfgVars, stopped, dcur, dmsg, hidx, msgVars, future, tpc,
                 pubVars, agentHist, marked, invalid, invoked, ilog>>

\* stop*() after `await self._run_task` when the dispatcher task ended with
\* an exception: the await re-raises it, the two assignments are skipped.
StopRaise ==
  /\ spc = "await_run"
  /\ dpc = "crashed"
  /\ lastStop' = <<"raised", puts, dones>>
  /\ idleFrom' = 0
  /\ spc' = "none"
  /\ skind' = "none"
  /\ UNCHANGED <<cfgVars, qVars, runContext, stopped, dVars, qFirst, msgVars, future,
                 tpc, pubVars, agentHist, marked, invalid, invoked, ilog>>

\* ------------------------------------------------------------- dispatcher
\* RunContext._run: the loop ends once _stopped is set (a get() pending on
\* the queue is woken by shutdown with QueueShutDown).
DispatcherExit ==
  /\ dpc = "get"
  /\ stopped
  /\ dpc' = "exited"
  /\ UNCHANGED <<cfgVars, qVars, dcur, dmsg, hidx, lifeVars, spc, msgVars,
                 future, tpc, pubVars, agentHist, marked, invalid, invoked,
                 ilog>>

\* The variant of the envelope of message m the dispatcher holds or spawns.
Variant(item) == item[1]
SpawnedPc(v) == IF v = "response" THEN "rspawned" ELSE "spawned"
InterceptPc(v) == IF v = "response" THEN "rintercept" ELSE "intercept"
DroppedPc(v) == IF v = "response" THEN "rdropped" ELSE "dropped"
EnvelopeMessage(m, v) == IF v = "response" THEN env[m].response ELSE env[m].message

\* _process_next: get() one envelope and match it.  With no intervention
\* handlers the delivery task is created at once.
DispatchGet ==
  /\ dpc = "get"
  /\ ~stopped
  /\ queue # <<>>
  /\ LET item == Head(queue)
         v == Variant(item)
         m == item[2]
     IN /\ queue' = Tail(queue)
        /\ IF nHandlers = 0
           THEN /\ tpc' = [tpc EXCEPT ![m] = SpawnedPc(v)]
                /\ UNCHANGED <<dpc, dcur, dmsg, hidx>>
           ELSE /\ tpc' = [tpc EXCEPT ![m] = InterceptPc(v)]
                /\ dpc' = "intercept"
                /\ dcur' = m
                /\ dmsg' = EnvelopeMessage(m, v)
                /\ hidx' = 1
  /\ UNCHANGED <<cfgVars, unfinished, shutdown, puts, dones, lifeVars, spc,
                 msgVars, future, pubVars, agentHist, marked, invalid, invoked,
                 ilog>>

\* The argument of handler.on_send / on_publish / on_response: the name
\* `message` bound by the match statement (local), while every return value
\* is stored in message_envelope.message (current).
HandlerArg(local, current) == local

\* Whether the dispatcher calls task_done() when the pipeline ends in
\* DropMessage or in an exception: both branches `return` without it.
DispatcherMarksDone == FALSE

EndsOnlyOnException(out) == out = "raise"
\* Whether a handler's outcome ends the pipeline (`return` in the except
\* branch and in the DropMessage branch).
EndsPipeline(out) == out \in {"drop", "raise"}

HandlerResult(v, i, arg) ==
  IF v = "send" THEN OnSend(i, arg)
  ELSE IF v = "publish" THEN OnPublish(i, arg)
  ELSE OnResponse(i, arg)

DispatcherIdle ==
  /\ dpc' = "get"
  /\ dcur' = 0
  /\ dmsg' = <<>>
  /\ hidx' = 0

\* _process_next: one intervention handler call on the held envelope.
Intercept ==
  /\ dpc = "intercept"
  /\ LET m == dcur
         v == IF tpc[m] = "rintercept" THEN "response" ELSE env[m].kind
         arg == HandlerArg(dmsg, EnvelopeMessage(m, v))
     IN \E out \in InterventionOutcomes :
          /\ ilog' = [ilog EXCEPT ![m] = Append(@, [pipe |-> v, idx |-> hidx,
                                                    arg |-> arg, out |-> out,
                                                    fst |-> future[m].st])]
          /\ IF ~EndsPipeline(out)
             THEN /\ env' = [env EXCEPT ![m] =
                               IF v = "response"
                               THEN [@ EXCEPT !.response = HandlerResult(v, hidx, arg)]
                               ELSE [@ EXCEPT !.message = HandlerResult(v, hidx, arg)]]
                  /\ IF hidx = nHandlers
                     THEN /\ tpc' = [tpc EXCEPT ![m] = SpawnedPc(v)]
                          /\ DispatcherIdle
                     ELSE /\ hidx' = hidx + 1
                          /\ UNCHANGED <<tpc, dpc, dcur, dmsg>>
                  /\ UNCHANGED <<future, invalid, unfinished, dones, marked, spc>>
             ELSE /\ tpc' = [tpc EXCEPT ![m] = DroppedPc(v)]
                  /\ UNCHANGED env
                  /\ IF v = "publish" \/ IsPending(future[m])
                     THEN /\ future' = IF v = "publish" THEN future
                                       ELSE [future EXCEPT ![m] = WithException(@,
                                               IF out = "drop" THEN "MessageDropped"
                                               ELSE "InterventionError")]
                          /\ DispatcherIdle
                          /\ UNCHANGED invalid
                          /\ IF DispatcherMarksDone /\ TaskDoneOK
                             THEN DoTaskDone(m)
                             ELSE NoTaskDone
                     ELSE \* InvalidStateError leaves _process_next and _run
                          /\ invalid' = [invalid EXCEPT ![m] = TRUE]
                          /\ dpc' = "crashed"
                          /\ dcur' = 0
                          /\ dmsg' = <<>>
                          /\ hidx' = 0
                          /\ UNCHANGED future
                          /\ NoTaskDone
  /\ UNCHANGED <<cfgVars, queue, shutdown, puts, lifeVars, nextId, token,
                 cancelledAt, pubVars, agentHist, invoked>>

\* ------------------------------------------------------------- agent cache
\* _get_agent(id) up to its first suspension: the cached instance, a
\* LookupError for an unregistered type, or a call of the type's factory,
\* which returns an agent, returns an awaitable (deferred), or raises.  The
\* wrapper of register_factory raises once the instance it obtained is not
\* of the expected class.
ResolveOutcomes(id) ==
  IF id \in instances THEN {"cached"}
  ELSE IF id.type \notin factories THEN {"lookup_error"}
  ELSE IF id.type \in mismatched THEN {"deferred", "raise"}
  ELSE {"value", "deferred", "raise"}

\* How the awaited factory of id ends.
FactoryDoneOutcomes(id) ==
  IF id.type \in mismatched THEN {"raise"} ELSE {"value", "raise"}

ResolveOK(out) == out \in {"cached", "value"}
ResolveError(out) == IF out = "lookup_error" THEN "LookupError" ELSE "FactoryError"

ApplyResolve(id, out) ==
  /\ factoryCalls' = IF out \in {"value", "deferred", "raise"}
                     THEN [factoryCalls EXCEPT ![id] = @ + 1]
                     ELSE factoryCalls
  /\ instances' = IF out = "value" THEN instances \cup {id} ELSE instances
  /\ cacheWrites' = IF out = "value"
                    THEN [cacheWrites EXCEPT ![id] = @ + 1]
                    ELSE cacheWrites

\* _get_agent(id) resumed after `await agent` in _invoke_agent_factory: the
\* instance is stored without looking at the cache again.
ApplyFactoryDone(id, out) ==
  /\ instances' = IF out = "value" THEN instances \cup {id} ELSE instances
  /\ cacheWrites' = IF out = "value"
                    THEN [cacheWrites EXCEPT ![id] = @ + 1]
                    ELSE cacheWrites
  /\ UNCHANGED factoryCalls

\* ------------------------------------------------------------- state snapshot
\* Everything but the agent cache, the agents' states and the snapshot
\* call, which is all the snapshot operations touch.
nonStateVars == <<factories, subscriptions, nHandlers, regVars, qVars, dVars,
                  lifeVars, spc, msgVars, future, tpc, pubVars, marked,
                  invalid, invoked, ilog>>

\* _get_agent(id) called from outside a delivery task (agent_metadata, get
\* with lazy=False, load_state): a factory that returns an awaitable is
\* awaited within the call.
ResolveNow(id) ==
  IF factoryCalls[id] < MaxFactoryCalls
  THEN ResolveOutcomes(id) \ {"deferred"}
  ELSE ResolveOutcomes(id) \ {"deferred", "value", "raise"}

\* An agent is materialized on behalf of some caller of _get_agent.
Materialize(a) ==
  /\ a \notin instances
  /\ \E out \in ResolveNow(a) : ApplyResolve(a, out)
  /\ UNCHANGED <<nonStateVars, stVars>>

\* An agent's handler changes the agent's observable state.
AgentWork(a) ==
  /\ a \in instances
  /\ astate[a] < MaxState
  /\ astate' = [astate EXCEPT ![a] = @ + 1]
  /\ snap' = [snap EXCEPT !.dirty = TRUE]
  /\ UNCHANGED <<nonStateVars, instances, agentHist>>

\* One next() of the iterator over _instantiated_agents in save_state, and
\* the loop body it leads to: RuntimeError if the dict has changed size
\* since the iterator was created, the return of the collected map if the
\* iterator is exhausted, and otherwise the entry of one more agent, stored
\* under str(agent_id).
SaveIterate(s) ==
  IF instances # s.base
  THEN {[s EXCEPT !.pc = "idle", !.res = "save_raised", !.dirty = TRUE]}
  ELSE IF s.todo = {}
  THEN {[s EXCEPT !.pc = "idle", !.res = "saved", !.saved = s.acc]}
  ELSE {[s EXCEPT !.todo = @ \ {a}, !.acc[ToStr(a)] = astate[a]] : a \in s.todo}

\* save_state() up to its first suspension.
SaveStart ==
  /\ snap.pc = "idle"
  /\ snap' \in SaveIterate([snap EXCEPT !.pc = "saving", !.base = instances,
                                        !.todo = instances, !.acc = EmptyMap,
                                        !.dirty = FALSE, !.pre = astate,
                                        !.inp = EmptyMap, !.loaded = {}])
  /\ UNCHANGED <<nonStateVars, instances, agentHist, astate>>

\* save_state() resumes after `await agent.save_state()`.
SaveStep ==
  /\ snap.pc = "saving"
  /\ snap' \in SaveIterate(snap)
  /\ UNCHANGED <<nonStateVars, instances, agentHist, astate>>

LoadsEveryKey(k) == TRUE
\* load_state's test of a key: the type of the id it parses to is known.
LoadsKey(k) == FromStr(k).type \in factories

\* One iteration of load_state's loop over the keys of the given map: the
\* return when no key is left, and otherwise a key whose agent, if its type
\* is known, is resolved and handed state[str(agent_id)].
LoadIterate(s) ==
  IF s.todo = {}
  THEN /\ snap' = [s EXCEPT !.pc = "idle", !.res = "loaded"]
       /\ UNCHANGED <<instances, agentHist, astate>>
  ELSE \E k \in s.todo :
         IF ~LoadsKey(k)
         THEN /\ snap' = [s EXCEPT !.todo = @ \ {k}]
              /\ UNCHANGED <<instances, agentHist, astate>>
         ELSE \E out \in ResolveNow(FromStr(k)) :
                /\ ApplyResolve(FromStr(k), out)
                /\ IF ResolveOK(out)
                   THEN /\ astate' = [astate EXCEPT ![FromStr(k)] = s.inp[ToStr(FromStr(k))]]
                        /\ snap' = [s EXCEPT !.todo = @ \ {k},
                                             !.loaded = @ \cup {FromStr(k)}]
                   ELSE /\ snap' = [s EXCEPT !.pc = "idle", !.res = "load_raised"]
                        /\ UNCHANGED astate

\* The maps load_state is called with: the one the last save_state()
\* returned, and the maps that give every key the same sub-map.
LoadInputs == {snap.saved} \cup {[k \in Keys |-> v] : v \in 0..MaxState}

\* load_state(state) up to its first suspension.
LoadStart(inp) ==
  /\ snap.pc = "idle"
  /\ inp \in LoadInputs
  /\ LoadIterate([snap EXCEPT !.pc = "loading", !.inp = inp,
                              !.todo = KeysOf(inp), !.loaded = {}])
  /\ UNCHANGED nonStateVars

\* load_state(state) resumes after `await agent.load_state(...)`.
LoadStep ==
  /\ snap.pc = "loading"
  /\ LoadIterate(snap)
  /\ UNCHANGED nonStateVars

\* ------------------------------------------------------------- send delivery
\* _process_send's two except branches: set_exception on the future
\* (InvalidStateError when it is already done, which ends the task before
\* task_done), then task_done().
FailSend(m, e) ==
  IF IsPending(future[m])
  THEN /\ future' = [future EXCEPT ![m] = WithException(@, e)]
       /\ UNCHANGED invalid
       /\ IF TaskDoneOK
          THEN /\ DoTaskDone(m)
               /\ tpc' = [tpc EXCEPT ![m] = "finished"]
          ELSE /\ NoTaskDone
               /\ tpc' = [tpc EXCEPT ![m] = "crashed"]
  ELSE /\ invalid' = [invalid EXCEPT ![m] = TRUE]
       /\ UNCHANGED future
       /\ NoTaskDone
       /\ tpc' = [tpc EXCEPT ![m] = "crashed"]

\* recipient_agent.on_message(message, ctx) is called.
InvokeSend(m) ==
  /\ invoked' = [invoked EXCEPT ![m] = @ \cup {env[m].recipient}]
  /\ tpc' = [tpc EXCEPT ![m] = "handler"]
  /\ UNCHANGED <<future, invalid>>
  /\ NoTaskDone

\* The delivery task of a Send starts: resolve the recipient, call on_message.
SendStart(m) ==
  /\ tpc[m] = "spawned"
  /\ env[m].kind = "send"
  /\ \E out \in ResolveOutcomes(env[m].recipient) :
       /\ ApplyResolve(env[m].recipient, out)
       /\ IF ResolveOK(out) THEN InvokeSend(m)
          ELSE IF out = "deferred"
          THEN /\ tpc' = [tpc EXCEPT ![m] = "factory"]
               /\ UNCHANGED <<future, invalid, invoked>>
               /\ NoTaskDone
          ELSE /\ FailSend(m, ResolveError(out))
               /\ UNCHANGED invoked
  /\ UNCHANGED <<factories, subscriptions, nHandlers, regVars, stVars, queue, shutdown, puts,
                 dVars, lifeVars, msgVars, pubVars, ilog>>

\* The deferred factory of a Send's recipient completes.
SendFactoryDone(m) ==
  /\ tpc[m] = "factory"
  /\ env[m].kind = "send"
  /\ \E out \in FactoryDoneOutcomes(env[m].recipient) :
       /\ ApplyFactoryDone(env[m].recipient, out)
       /\ IF out = "value" THEN InvokeSend(m)
          ELSE /\ FailSend(m, "FactoryError")
               /\ UNCHANGED invoked
  /\ UNCHANGED <<factories, subscriptions, nHandlers, regVars, stVars, queue, shutdown, puts,
                 dVars, lifeVars, msgVars, pubVars, ilog>>

\* How an agent's on_message may end for a Send: it returns, it raises, or
\* (once its token is cancelled) it raises CancelledError.
SendHandlerOutcomes(m) ==
  {"return", "raise"} \cup (IF token[m] THEN {"cancelled"} ELSE {})

\* on_message ends.  On return the ResponseMessageEnvelope is put on
\* self._message_queue (QueueShutDown leaves the task) and the Send envelope
\* is marked done.
SendHandlerFinish(m) ==
  /\ tpc[m] = "handler"
  /\ \E ho \in SendHandlerOutcomes(m) :
       IF ho = "return"
       THEN IF shutdown
            THEN /\ tpc' = [tpc EXCEPT ![m] = "crashed"]
                 /\ UNCHANGED <<env, queue, puts, future, invalid>>
                 /\ NoTaskDone
            ELSE /\ env' = [env EXCEPT ![m].response = Reply(env[m].message)]
                 /\ queue' = Append(queue, <<"response", m>>)
                 /\ puts' = puts + 1
                 /\ unfinished' = unfinished
                 /\ dones' = dones + 1
                 /\ marked' = [marked EXCEPT ![m] = @ + 1]
                 /\ spc' = IF unfinished = 0 /\ spc = "join" THEN "joined" ELSE spc
                 /\ tpc' = [tpc EXCEPT ![m] = "rqueued"]
                 /\ UNCHANGED <<future, invalid>>
       ELSE IF ho = "cancelled" /\ future[m].st = "cancelled"
       THEN /\ UNCHANGED <<env, queue, puts, future, invalid>>
            /\ IF TaskDoneOK
               THEN /\ DoTaskDone(m)
                    /\ tpc' = [tpc EXCEPT ![m] = "finished"]
               ELSE /\ NoTaskDone
                    /\ tpc' = [tpc EXCEPT ![m] = "crashed"]
       ELSE /\ FailSend(m, IF ho = "cancelled" THEN "CancelledError" ELSE "HandlerError")
            /\ UNCHANGED <<env, queue, puts>>
  /\ UNCHANGED <<cfgVars, shutdown, dVars, lifeVars, nextId, token,
                 cancelledAt, pubVars, agentHist, invoked, ilog>>

\* ------------------------------------------------------------- response delivery
RawReturn(m) == Reply(env[m].message)
\* The value _process_response settles the handle with: the message the
\* Response envelope holds once the on_response pipeline has run.
ResponseValue(m) == env[m].response

\* _process_response: task_done(), then set_result unless the future is
\* cancelled (InvalidStateError when it already holds an exception).
ResponseDeliver(m) ==
  /\ tpc[m] = "rspawned"
  /\ IF ~TaskDoneOK
     THEN /\ NoTaskDone
          /\ tpc' = [tpc EXCEPT ![m] = "crashed"]
          /\ UNCHANGED <<future, invalid>>
     ELSE /\ DoTaskDone(m)
          /\ IF future[m].st = "cancelled"
             THEN /\ tpc' = [tpc EXCEPT ![m] = "finished"]
                  /\ UNCHANGED <<future, invalid>>
             ELSE IF IsPending(future[m])
             THEN /\ future' = [future EXCEPT ![m] = WithResult(@, ResponseValue(m))]
                  /\ tpc' = [tpc EXCEPT ![m] = "finished"]
                  /\ UNCHANGED invalid
             ELSE /\ invalid' = [invalid EXCEPT ![m] = TRUE]
                  /\ tpc' = [tpc EXCEPT ![m] = "crashed"]
                  /\ UNCHANGED future
  /\ UNCHANGED <<cfgVars, queue, shutdown, puts, dVars, lifeVars, msgVars,
                 pubVars, agentHist, invoked, ilog>>

\* ------------------------------------------------------------- publish delivery
\* _process_publish starts: recipients = get_subscribed_recipients(topic).
PublishStart(m) ==
  /\ tpc[m] = "spawned"
  /\ env[m].kind = "publish"
  /\ precs' = [precs EXCEPT ![m] = Recipients]
  /\ pidx' = [pidx EXCEPT ![m] = 1]
  /\ pphase' = [pphase EXCEPT ![m] = "sender"]
  /\ tpc' = [tpc EXCEPT ![m] = "loop"]
  /\ UNCHANGED <<cfgVars, qVars, dVars, lifeVars, spc, msgVars, future, hstate,
                 agentHist, marked, invalid, invoked, ilog>>

NeverSkipsSender(s, a) == FALSE
\* Whether the for loop skips recipient a of a Publish sent by s.
SkipsSender(s, a) == s # NoSender /\ a = s

\* The loop is left by an exception: it is logged, the coroutines created so
\* far are never awaited, and `finally` marks the envelope done.
PublishAbort(m) ==
  /\ hstate' = [hstate EXCEPT ![m] =
                  [a \in AgentIds |-> IF hstate[m][a] = "created"
                                      THEN "unawaited" ELSE hstate[m][a]]]
  /\ IF TaskDoneOK
     THEN /\ DoTaskDone(m)
          /\ tpc' = [tpc EXCEPT ![m] = "finished"]
     ELSE /\ NoTaskDone
          /\ tpc' = [tpc EXCEPT ![m] = "crashed"]
  /\ UNCHANGED <<pidx, pphase>>

\* The sender of the Publish is resolved: go on to resolve the recipient.
SenderResolved(m) ==
  /\ pphase' = [pphase EXCEPT ![m] = "recipient"]
  /\ tpc' = [tpc EXCEPT ![m] = "loop"]
  /\ UNCHANGED <<pidx, hstate>>
  /\ NoTaskDone

\* The recipient is resolved: its _on_message coroutine is created and
\* appended to responses; next iteration.
RecipientResolved(m) ==
  /\ hstate' = [hstate EXCEPT ![m][precs[m][pidx[m]]] = "created"]
  /\ pidx' = [pidx EXCEPT ![m] = @ + 1]
  /\ pphase' = [pphase EXCEPT ![m] = "sender"]
  /\ tpc' = [tpc EXCEPT ![m] = "loop"]
  /\ NoTaskDone

\* The agent an iteration is resolving.
ResolvingSender(m) == pphase[m] = "sender" /\ env[m].sender # NoSender
ResolvingId(m) == IF ResolvingSender(m) THEN env[m].sender ELSE precs[m][pidx[m]]

\* One step of the for loop over recipients, or asyncio.gather after it.
PublishLoop(m) ==
  /\ tpc[m] = "loop"
  /\ IF pidx[m] > Len(precs[m])
     THEN /\ tpc' = [tpc EXCEPT ![m] = "gather"]
          /\ UNCHANGED <<pidx, pphase, hstate, instances, agentHist>>
          /\ NoTaskDone
     ELSE IF SkipsSender(env[m].sender, precs[m][pidx[m]])
     THEN /\ pidx' = [pidx EXCEPT ![m] = @ + 1]
          /\ UNCHANGED <<tpc, pphase, hstate, instances, agentHist>>
          /\ NoTaskDone
     ELSE \E out \in ResolveOutcomes(ResolvingId(m)) :
            /\ ApplyResolve(ResolvingId(m), out)
            /\ IF ResolveOK(out)
               THEN IF ResolvingSender(m) THEN SenderResolved(m)
                    ELSE RecipientResolved(m)
               ELSE IF out = "deferred"
               THEN /\ tpc' = [tpc EXCEPT ![m] = "factory"]
                    /\ pphase' = [pphase EXCEPT ![m] =
                                    IF ResolvingSender(m) THEN "sender" ELSE "recipient"]
                    /\ UNCHANGED <<pidx, hstate>>
                    /\ NoTaskDone
               ELSE PublishAbort(m)
  /\ UNCHANGED <<factories, subscriptions, nHandlers, regVars, stVars, queue, shutdown, puts,
                 dVars, lifeVars, msgVars, future, precs, invalid, invoked, ilog>>

\* A deferred factory awaited by a Publish's loop completes.
PublishFactoryDone(m) ==
  /\ tpc[m] = "factory"
  /\ env[m].kind = "publish"
  /\ \E out \in FactoryDoneOutcomes(ResolvingId(m)) :
       /\ ApplyFactoryDone(ResolvingId(m), out)
       /\ IF out = "value"
          THEN IF ResolvingSender(m) THEN SenderResolved(m)
               ELSE RecipientResolved(m)
          ELSE PublishAbort(m)
  /\ UNCHANGED <<factories, subscriptions, nHandlers, regVars, stVars, queue, shutdown, puts,
                 dVars, lifeVars, msgVars, future, precs, invalid, invoked, ilog>>

\* A coroutine handed to asyncio.gather runs: agent.on_message is called.
PubHandlerStart(m, a) ==
  /\ tpc[m] = "gather"
  /\ hstate[m][a] = "created"
  /\ hstate' = [hstate EXCEPT ![m][a] = "running"]
  /\ invoked' = [invoked EXCEPT ![m] = @ \cup {a}]
  /\ UNCHANGED <<cfgVars, qVars, dVars, lifeVars, spc, msgVars, future, tpc,
                 precs, pidx, pphase, agentHist, marked, invalid, ilog>>

\* A recipient's on_message ends for a Publish: it returns or it raises.
PubHandlerFinish(m, a) ==
  /\ hstate[m][a] = "running"
  /\ \E ho \in {"returned", "raised"} :
       hstate' = [hstate EXCEPT ![m][a] = ho]
  /\ UNCHANGED <<cfgVars, qVars, dVars, lifeVars, spc, msgVars, future, tpc,
                 precs, pidx, pphase, agentHist, marked, invalid, invoked, ilog>>

\* `await asyncio.gather(*responses)` ends, with the first exception raised
\* by a coroutine or when every coroutine has returned; `finally` marks the
\* Publish envelope done.  gather wraps each coroutine in a task whose first
\* step is scheduled before the awaiting task can be woken, so every handler
\* has been called by then.
GatherEnds(m) ==
  /\ \A a \in AgentIds : hstate[m][a] # "created"
  /\ \/ \E a \in AgentIds : hstate[m][a] = "raised"
     \/ \A a \in AgentIds : hstate[m][a] \in {"none", "returned"}

GatherResultAsResponse(m) == <<<<"response", m>>>>
\* The envelopes _process_publish puts for what gather returned: the return
\* values of the handlers are not bound to anything.
GatherResultEnvelopes(m) == <<>>

PublishComplete(m) ==
  /\ tpc[m] = "gather"
  /\ GatherEnds(m)
  /\ queue' = queue \o GatherResultEnvelopes(m)
  /\ IF TaskDoneOK
     THEN /\ DoTaskDone(m)
          /\ tpc' = [tpc EXCEPT ![m] = "finished"]
     ELSE /\ NoTaskDone
          /\ tpc' = [tpc EXCEPT ![m] = "crashed"]
  /\ UNCHANGED <<cfgVars, shutdown, puts, dVars, lifeVars, msgVars,
                 future, pubVars, agentHist, invalid, invoked, ilog>>

\* ------------------------------------------------------------- specification
\* Steps of the run context and the dispatcher.
LoopStep ==
  \/ StopAfterJoin
  \/ StopReturn
  \/ DispatcherExit
  \/ DispatchGet
  \/ Intercept

\* Steps of the delivery tasks of Sends and Responses, and of the user code
\* they await.
SendTaskStep ==
  \/ \E m \in Msgs : SendStart(m)
  \/ \E m \in Msgs : SendFactoryDone(m)
  \/ \E m \in Msgs : SendHandlerFinish(m)
  \/ \E m \in Msgs : ResponseDeliver(m)

\* Steps of the delivery tasks of Publishes.
PublishTaskStep ==
  \/ \E m \in Msgs : PublishStart(m)
  \/ \E m \in Msgs : PublishLoop(m)
  \/ \E m \in Msgs : PublishFactoryDone(m)
  \/ \E m \in Msgs, a \in AgentIds : PubHandlerStart(m, a)
  \/ \E m \in Msgs, a \in AgentIds : PubHandlerFinish(m, a)
  \/ \E m \in Msgs : PublishComplete(m)

\* Every operation.
Next ==
  \/ \E t \in Types : Register(t)
  \/ \E t \in Types : RegisterSubscribed(t)
  \/ \E t \in Types : AddSubscription(t)
  \/ \E r \in AgentIds : SendMessage(r)
  \/ \E s \in Senders : PublishMessage(s)
  \/ \E m \in Msgs : Cancel(m)
  \/ Start
  \/ Stop
  \/ StopWhenIdle
  \/ StopRaise
  \/ LoopStep
  \/ SendTaskStep
  \/ PublishTaskStep

Spec == Init /\ [][Next]_vars

\* Point-to-point traffic: send_message, cancellation and stop_when_idle on
\* a runtime whose types are registered without subscriptions.
SendNext ==
  \/ \E t \in Types : Register(t)
  \/ \E r \in AgentIds : SendMessage(r)
  \/ \E m \in Msgs : Cancel(m)
  \/ Start
  \/ StopWhenIdle
  \/ LoopStep
  \/ SendTaskStep

SpecSend == Init /\ [][SendNext]_vars

\* Topic traffic: publish_message and stop_when_idle on a runtime whose
\* types are registered with a subscription to the topic.
PublishNext ==
  \/ \E t \in Types : RegisterSubscribed(t)
  \/ \E s \in Senders : PublishMessage(s)
  \/ Start
  \/ StopWhenIdle
  \/ LoopStep
  \/ PublishTaskStep

SpecPublish == Init /\ [][PublishNext]_vars

\* Both kinds of traffic on a runtime that is started and never stopped.
MixedNext ==
  \/ \E t \in Types : Register(t)
  \/ \E t \in Types : RegisterSubscribed(t)
  \/ \E r \in AgentIds : SendMessage(r)
  \/ \E s \in Senders : PublishMessage(s)
  \/ Start
  \/ DispatchGet
  \/ Intercept
  \/ SendTaskStep
  \/ PublishTaskStep

SpecMixed == Init /\ [][MixedNext]_vars

\* Request/response on a runtime constructed without intervention handlers,
\* stopped only by stop_when_idle().  The event loop runs every task that is
\* ready: the dispatcher, the delivery tasks and the caller woken from
\* join(); factories and handlers end.
InitNoHandlers == Init /\ nHandlers = 0

RoundTripNext ==
  \/ \E t \in Types : Register(t)
  \/ \E r \in AgentIds : SendMessage(r)
  \/ Start
  \/ StopWhenIdle
  \/ StopAfterJoin
  \/ StopReturn
  \/ DispatcherExit
  \/ DispatchGet
  \/ SendTaskStep

SpecRoundTrip ==
  /\ InitNoHandlers
  /\ [][RoundTripNext]_vars
  /\ WF_vars(StopAfterJoin)
  /\ WF_vars(StopReturn)
  /\ WF_vars(DispatcherExit)
  /\ WF_vars(DispatchGet)
  /\ \A m \in Msgs : WF_vars(SendStart(m))
  /\ \A m \in Msgs : WF_vars(SendFactoryDone(m))
  /\ \A m \in Msgs : WF_vars(SendHandlerFinish(m))
  /\ \A m \in Msgs : WF_vars(ResponseDeliver(m))

\* The lifecycle calls, in any order and state, around point-to-point
\* traffic on a runtime constructed with one intervention handler.
InitOneHandler == Init /\ nHandlers = 1

LifecycleNext ==
  \/ \E t \in Types : Register(t)
  \/ \E r \in AgentIds : SendMessage(r)
  \/ Start
  \/ StartRefused
  \/ Stop
  \/ StopWhenIdle
  \/ \E k \in StopCalls : StopRefused(k)
  \/ StopRaise
  \/ LoopStep
  \/ SendTaskStep

SpecLifecycle == InitOneHandler /\ [][LifecycleNext]_vars

\* Registration calls, in any order, around point-to-point traffic on a
\* started runtime constructed without intervention handlers.
RegisterNext ==
  \/ \E t \in Types : Register(t)
  \/ \E t \in Types : RegisterSubscribed(t)
  \/ \E t \in Types : RegisterFactoryMismatch(t)
  \/ \E t \in Types : RegisterRefused(t)
  \/ \E r \in AgentIds : SendMessage(r)
  \/ Start
  \/ DispatchGet
  \/ SendTaskStep

SpecRegister == InitNoHandlers /\ [][RegisterNext]_vars

\* Concurrent registration calls, some of which suspend while their
\* subscriptions are produced, around point-to-point traffic on a started
\* runtime constructed without intervention handlers.
ConcurrentRegisterNext ==
  \/ \E t \in Types : Register(t)
  \/ \E t \in Types : RegisterRefused(t)
  \/ \E c \in RegCalls, t \in Types : RegisterBegin(c, t)
  \/ \E c \in RegCalls : RegisterResume(c)
  \/ \E r \in AgentIds : SendMessage(r)
  \/ Start
  \/ DispatchGet
  \/ SendTaskStep

SpecConcurrentRegister == InitNoHandlers /\ [][ConcurrentRegisterNext]_vars

\* save_state() and load_state() on a runtime whose agents are materialized
\* and change state while the calls are suspended.
StateNext ==
  \/ \E t \in Types : Register(t)
  \/ \E a \in AgentIds : Materialize(a)
  \/ \E a \in AgentIds : AgentWork(a)
  \/ SaveStart
  \/ SaveStep
  \/ \E inp \in StateMaps : LoadStart(inp)
  \/ LoadStep

SpecState == Init /\ [][StateNext]_vars

TypeOK ==
  /\ factories \subseteq Types
  /\ instances \subseteq AgentIds
  /\ unfinished \in Nat
  /\ \A m \in Msgs : future[m].st \in {"none", "pending", "result", "exception", "cancelled"}

\* ------------------------------------------------------------- claims
IsSend(m) == env[m].kind = "send"
IsPublish(m) == env[m].kind = "publish"
LogIdx(m) == 1..Len(ilog[m])

\* C1: exactly-once settlement.  No operation ever attempts to settle the
\* result handle of a Send that is already settled (an attempt the future
\* answers with InvalidStateError).
C1_ExactlyOnceSettlement ==
  \A m \in Msgs : IsSend(m) => ~invalid[m]

\* C2: stop_when_idle() eventually returns.  Stated so that a finite run
\* refutes it: while a stop_when_idle() call has not returned, some task of
\* the runtime (the dispatcher, a delivery task, a handler, the caller woken
\* from join) can take a step; otherwise the call is blocked for good, as
\* no later send or publish marks an earlier envelope done.  Runs in which
\* a task died of InvalidStateError (C1) are left aside.
RuntimeCanStep == ENABLED (LoopStep \/ SendTaskStep \/ PublishTaskStep)
NoInvalidState == \A m \in Msgs : ~invalid[m]
C2_StopWhenIdleReturns ==
  (/\ skind = "idle"
   /\ spc \in {"join", "joined", "await_run"}
   /\ NoInvalidState) => RuntimeCanStep

\* C3: one task_done() per put().  An envelope whose intervention pipeline
\* ended in DropMessage or in an exception has been marked done by the
\* dispatcher: once for a Send or Publish, and a second time for the
\* Response of a Send (whose Send envelope was marked done by its delivery).
\* Envelopes on which the dispatcher died of InvalidStateError (C1) are left
\* aside.
C3_DroppedEnvelopeMarkedDone ==
  \A m \in Msgs : /\ (tpc[m] = "dropped" /\ ~invalid[m]) => marked[m] = 1
                  /\ (tpc[m] = "rdropped" /\ ~invalid[m]) => marked[m] = 2

\* C4: queue balance.  When a stop_when_idle() call has returned, the queue
\* it stopped had as many task_done() calls as successful put() calls.
C4_QueueBalance ==
  lastStop[1] = "idle" => lastStop[2] = lastStop[3]

\* C5: cancel-before-deliver.  A Send whose token was cancelled while its
\* envelope was still queued, and whose handle that cancellation resolved as
\* Cancelled, never has its recipient's on_message invoked.
C5_CancelBeforeDeliver ==
  \A m \in Msgs :
    (cancelledAt[m] = "queued" /\ future[m].st = "cancelled") => invoked[m] = {}

\* A Send's on_send handler returned DropMessage at the i-th logged call.
DroppedAt(m, i) == ilog[m][i].pipe = "send" /\ ilog[m][i].out = "drop"
HoldsMessageDropped(m) ==
  future[m].st = "exception" /\ future[m].err = "MessageDropped"
\* No later handler ran, no delivery task was spawned, on_message not called.
PipelineEndedAt(m, i) ==
  i = Len(ilog[m]) /\ tpc[m] = "dropped" /\ invoked[m] = {}

\* C6 (as claimed): every Send for which an on_send handler returns
\* DropMessage resolves its handle with MessageDropped; later handlers are
\* not run, no delivery task is spawned, on_message is never called.
C6_DropAlwaysMessageDropped ==
  \A m \in Msgs : \A i \in LogIdx(m) :
    DroppedAt(m, i) => (HoldsMessageDropped(m) /\ PipelineEndedAt(m, i))

\* C6 (amended): a Send for which an on_send handler returns DropMessage
\* has no later handler run, no delivery task spawned and on_message never
\* called; and if its handle was still pending when the handler returned,
\* the handle holds MessageDropped from then on.
C6_DropSemantics ==
  \A m \in Msgs : \A i \in LogIdx(m) :
    DroppedAt(m, i) =>
      /\ PipelineEndedAt(m, i)
      /\ ilog[m][i].fst = "pending" => HoldsMessageDropped(m)

\* C6 witness: with two handlers, the first dropped a Send whose handle was
\* pending; the handle holds MessageDropped and the dispatcher has gone on
\* to wait for the next envelope.
C6_Witness ==
  \E m \in Msgs : /\ nHandlers = 2
                  /\ Len(ilog[m]) = 1
                  /\ DroppedAt(m, 1)
                  /\ ilog[m][1].fst = "pending"
                  /\ HoldsMessageDropped(m)
                  /\ dpc = "get"

\* C7: intervention chaining.  In each pipeline the first handler receives
\* the enqueued message and handler i+1 receives what handler i returned.
C7_InterventionChaining ==
  \A m \in Msgs : \A i \in LogIdx(m) :
    (i > 1 /\ ilog[m][i].pipe = ilog[m][i - 1].pipe) =>
      ilog[m][i].arg = HandlerResult(ilog[m][i - 1].pipe, ilog[m][i - 1].idx,
                                     ilog[m][i - 1].arg)

\* C8: lazy singleton.  At most one instance is ever cached for an AgentId
\* (a second cached instance takes a second call of the factory).
C8_LazySingleton ==
  \A a \in AgentIds : cacheWrites[a] <= 1

\* The recipients a Publish's loop does not skip.
Surviving(m) ==
  {precs[m][i] : i \in 1..Len(precs[m])} \ {env[m].sender}

\* C9: no self-delivery.  The on_message of the agent that is the sender of
\* a Publish is never invoked for that Publish.
C9_NoSelfDelivery ==
  \A m \in Msgs :
    (IsPublish(m) /\ env[m].sender # NoSender) =>
      (env[m].sender \notin invoked[m] /\ hstate[m][env[m].sender] = "none")

\* C9 witness: a Publish whose sender is among the matched recipients has
\* been delivered to another recipient and marked done.
C9_Witness ==
  \E m \in Msgs : /\ IsPublish(m)
                  /\ \E i \in 1..Len(precs[m]) : precs[m][i] = env[m].sender
                  /\ invoked[m] # {}
                  /\ tpc[m] = "finished"

\* The recipient at which a Publish's loop was left by an exception.
FailedRecipient(m) ==
  IF pidx[m] \in 1..Len(precs[m]) THEN {precs[m][pidx[m]]} ELSE {}

\* C10: publish failure isolation.  Once the delivery of a Publish without
\* sender has ended and no handler of it is still to run or running, every
\* surviving recipient other than one whose resolution failed has had its
\* on_message invoked and run to its end (it returned or raised).
C10_PublishIsolation ==
  \A m \in Msgs :
    (/\ IsPublish(m)
     /\ env[m].sender = NoSender
     /\ tpc[m] \in {"finished", "crashed"}
     /\ \A a \in AgentIds : hstate[m][a] \notin {"created", "running"})
    => \A a \in Surviving(m) \ FailedRecipient(m) :
         a \in invoked[m] /\ hstate[m][a] \in {"returned", "raised"}

\* The Response envelopes of message m in the queue.
ResponsesQueued(m) == {i \in 1..Len(queue) : queue[i] = <<"response", m>>}

\* C11: a Publish has no return channel.  A Publish never has a result
\* handle, no Response envelope is ever queued, intercepted or delivered for
\* it, and a step of a Publish's delivery task (or of a handler it awaits)
\* puts nothing on the queue: the only envelopes the delivery tasks put are
\* the Responses of Sends.
C11_PublishNoReturnChannel ==
  \A m \in Msgs :
    IsPublish(m) =>
      /\ future[m] = NoFuture
      /\ env[m].response = <<>>
      /\ ResponsesQueued(m) = {}
      /\ tpc[m] \notin {"rqueued", "rintercept", "rdropped", "rspawned", "rdiscarded"}

\* C11 witness: a Publish was delivered, a recipient's on_message returned
\* for it and its envelope was marked done, while a Send's Response is queued.
C11_Witness ==
  \E m, n \in Msgs :
    /\ IsPublish(m)
    /\ tpc[m] = "finished"
    /\ \E a \in AgentIds : hstate[m][a] = "returned"
    /\ IsSend(n)
    /\ ResponsesQueued(n) # {}

RecipientNotFound == WithException(PendingFuture, "RecipientNotFound")

\* C12: recipient not found.  A send_message call whose recipient's type is
\* not registered leaves its handle settled with "Recipient not found" by
\* the time the call's own step ends (no step of the dispatcher is needed),
\* and a handle that holds this error holds it in every later state: no
\* cancellation, delivery or interception changes it.
C12_RecipientNotFound ==
  [][\A m \in Msgs :
       /\ (/\ env[m].kind = "none"
           /\ env'[m].kind = "send"
           /\ env'[m].recipient.type \notin factories) => future'[m] = RecipientNotFound
       /\ future[m] = RecipientNotFound => future'[m] = RecipientNotFound]_vars

\* C12 witness: a handle holds "Recipient not found" after its token was
\* cancelled and after its envelope was dispatched and its delivery task
\* tried to report the lookup failure.
C12_Witness ==
  \E m \in Msgs : /\ future[m] = RecipientNotFound
                  /\ token[m]
                  /\ tpc[m] = "crashed"

\* A Send accepted by the queue of a running runtime for a registered type.
Outstanding(m) ==
  /\ IsSend(m)
  /\ tpc[m] = "queued"
  /\ runContext
  /\ env[m].recipient.type \in factories
  /\ IsPending(future[m])
\* The handle holds the recipient's reply to the message sent.
ResolvedWithReply(m) ==
  future[m].st = "result" /\ future[m].val = Reply(Payload)
\* The recipient's factory or its on_message raised instead of returning.
RecipientFailed(m) ==
  future[m].st = "exception" /\ future[m].err \in {"FactoryError", "HandlerError"}

\* C13: send round trip.  Without intervention handlers and without stop(),
\* every Send accepted by the queue of a running runtime for a registered
\* recipient eventually has its handle resolved with the value on_message
\* returns (unless the recipient's factory or handler raises), also when
\* stop_when_idle() is called in the meantime.
C13_SendRoundTrip ==
  \A m \in Msgs : Outstanding(m) ~> (ResolvedWithReply(m) \/ RecipientFailed(m))

\* C14: lifecycle misuse.  A start() call made while a run context exists
\* raises and leaves the run context, its dispatcher and the queue as they
\* were; a stop(), stop_when_idle() or stop_when() call made while no run
\* context exists raises and leaves the queue and the (absent) run context
\* as they were.
C14_LifecycleMisuse ==
  [][/\ (runContext /\ (Start \/ StartRefused)) =>
          /\ lastStop'[1] = "start_refused"
          /\ UNCHANGED <<runContext, stopped, dVars, qVars>>
     /\ (~runContext /\ (Stop \/ StopWhenIdle \/ \E k \in StopCalls : StopRefused(k))) =>
          /\ lastStop'[1] \in {Refused(k) : k \in StopCalls}
          /\ UNCHANGED <<runContext, stopped, spc, skind, dVars, qVars>>]_vars

\* C14 witness: start() was refused on a started runtime whose dispatcher
\* is waiting on a queue that holds an envelope.
C14_Witness ==
  /\ lastStop[1] = "start_refused"
  /\ runContext
  /\ dpc = "get"
  /\ queue # <<>>

WasDiscarded(m) == tpc[m] \in {"discarded", "rdiscarded"}

\* C15: stop().  A stop() call on a started runtime discards every envelope
\* queued at the call; a discarded envelope stays discarded and no agent
\* handler or intervention handler is invoked for its message afterwards;
\* and when the call returns, the run context is null and the queue is a fresh
\* empty one (nothing queued, nothing unfinished, not shut down), so that a
\* following start() is accepted and its dispatcher sees only envelopes put
\* after the stop.
C15_StopDiscardsAndResets ==
  [][/\ (runContext /\ Stop) => \A m \in Msgs : InQueue(m) => WasDiscarded(m)'
     /\ \A m \in Msgs : WasDiscarded(m) =>
          /\ tpc'[m] = tpc[m]
          /\ invoked'[m] = invoked[m]
          /\ ilog'[m] = ilog[m]
     /\ (spc = "await_run" /\ skind = "now" /\ spc' = "none" /\ lastStop'[1] = "now") =>
          /\ ~runContext'
          /\ queue' = <<>>
          /\ unfinished' = 0
          /\ ~shutdown']_vars

\* C15 witness: stop() discarded a queued envelope and returned, start() was
\* called again, and the new dispatcher holds an envelope sent after the one
\* that was discarded.
C15_Witness ==
  \E m, n \in Msgs :
    /\ m < n
    /\ tpc[m] = "discarded"
    /\ lastStop[1] = "now"
    /\ runContext
    /\ spc = "none"
    /\ tpc[n] = "intercept"

\* The token of m was cancelled while on_message was running for m and the
\* handle was pending.
CancelledInFlight(m) == cancelledAt[m] = "handler" /\ future[m].st = "cancelled"
\* on_message returned for m and the processing of its Response envelope
\* has ended (delivered, or ended by the intervention pipeline).
ResponseEnded(m) ==
  env[m].response # <<>> /\ tpc[m] \in {"finished", "crashed", "rdropped"}

\* C16: cancellation in flight.  Cancelling the token of a Send whose handle
\* is pending makes the handle Cancelled; a Cancelled handle stays Cancelled,
\* in particular when the handler returns afterwards and its Response
\* envelope is processed, and that Response envelope is marked done (the
\* second task_done() for the message); cancelling a token whose handle is
\* already settled leaves the handle as it is.
C16_CancelInFlight ==
  [][\A m \in Msgs :
       /\ (token'[m] /\ ~token[m]) =>
            future'[m] = (IF IsPending(future[m])
                          THEN [st |-> "cancelled", val |-> <<>>, err |-> "none"]
                          ELSE future[m])
       /\ future[m].st = "cancelled" => future'[m] = future[m]
       /\ (CancelledInFlight(m) /\ ResponseEnded(m))' => marked'[m] = 2]_vars

\* C17: duplicate registration fails.  A register or register_factory call
\* for a type that is already bound raises and leaves the factories, the
\* subscriptions and the instances as they were.
C17_DuplicateRegistration ==
  [][\A t \in Types :
       (/\ t \in factories
        /\ \/ Register(t)
           \/ RegisterSubscribed(t)
           \/ RegisterFactoryMismatch(t)
           \/ RegisterRefused(t)) =>
         /\ apiError' = <<"DuplicateType", t>>
         /\ UNCHANGED <<factories, subscriptions, instances, mismatched>>]_vars

\* C17 witness: a registration was refused for a type that is bound with a
\* subscription and has an instance.
C17_Witness ==
  \E t \in Types :
    /\ apiError = <<"DuplicateType", t>>
    /\ [type |-> t, key |-> "default"] \in instances
    /\ \E i \in 1..Len(subscriptions) : subscriptions[i] = t

\* C18: register_factory with a factory whose instances are not of the
\* expected class raises, so that no type is ever bound to such a factory.
C18_MismatchRejected ==
  \A t \in mismatched : t \notin factories

SaveCall == SaveStart \/ SaveStep
LoadCall == (\E inp \in StateMaps : LoadStart(inp)) \/ LoadStep
\* The keys a step of load_state has dealt with.
Processed ==
  IF snap.pc = "loading" THEN snap.todo \ snap'.todo
  ELSE KeysOf(snap'.inp) \ snap'.todo

\* C19: state round trip.  (1) A save_state() call that returns, returns a
\* map whose keys are exactly the string forms of the instantiated agents,
\* each with the state its agent had (nothing for a type that is bound but
\* has no instance).  (2) load_state deals with a key whose type is bound
\* by materializing that agent and handing it the sub-map stored under the
\* key, and with any other key by skipping it; it raises only when a
\* factory it called raised.  (3) Hence once load_state has returned for the
\* map the last save_state() returned, every agent that was saved has the
\* state it had when save_state() was called, provided no handler changed
\* an agent's state since then.
C19_StateRoundTrip ==
  [][/\ (SaveCall /\ snap'.pc = "idle" /\ snap'.res = "saved") =>
          /\ KeysOf(snap'.saved) = {ToStr(a) : a \in instances}
          /\ ~snap'.dirty => \A a \in instances : snap'.saved[ToStr(a)] = astate[a]
     /\ LoadCall =>
          /\ \A k \in Processed :
               IF FromStr(k).type \in factories
               THEN /\ FromStr(k) \in instances'
                    /\ FromStr(k) \in snap'.loaded
                    /\ astate'[FromStr(k)] = snap'.inp[k]
               ELSE /\ FromStr(k) \notin snap'.loaded
                    /\ UNCHANGED <<astate, instances>>
          /\ (snap'.pc = "idle" /\ snap'.res = "load_raised") =>
               factoryCalls' # factoryCalls
     /\ (/\ snap'.pc = "idle"
         /\ snap'.res = "loaded"
         /\ snap'.inp = snap'.saved
         /\ ~snap'.dirty) =>
          \A a \in snap'.base : astate'[a] = snap'.pre[a]]_vars

\* C19 witness: load_state has returned for the map the last save_state()
\* returned; the map has an entry for an agent whose state was not the
\* fresh one and none for a type that is bound but was not instantiated.
C19_Witness ==
  /\ snap.pc = "idle"
  /\ snap.res = "loaded"
  /\ snap.inp = snap.saved
  /\ ~snap.dirty
  /\ \E a \in snap.base : snap.saved[ToStr(a)] = MaxState /\ a \in snap.loaded
  /\ \E b \in AgentIds : /\ b.type \in factories
                          /\ b \notin instances
                          /\ snap.saved[ToStr(b)] = Absent

\* The delivery task of Send m has ended: without a Response (failure,
\* cancellation, an exception that left the task), or with its Response put.
SendDeliveryFailed(m) ==
  IsSend(m) /\ tpc[m] \in {"finished", "crashed"} /\ env[m].response = <<>>
ResponsePending(m) ==
  IsSend(m) /\ tpc[m] \in {"rqueued", "rintercept", "rspawned", "rdropped", "rdiscarded"}

\* C20: the delivery task of a Send marks the Send envelope done exactly
\* once on every path on which it ends: once it has ended without a
\* Response, or has put its Response (which is not yet marked done itself),
\* exactly one task_done() call was made for the message.
C20_SendMarkedDoneOnce ==
  \A m \in Msgs : (SendDeliveryFailed(m) \/ ResponsePending(m)) => marked[m] = 1

\* C21: a Publish envelope is marked done only after every on_message
\* invocation made for it has ended: in the step that calls task_done() for
\* a Publish, no recipient handler of that Publish is still running or is
\* still to be started.
C21_PublishDoneAfterHandlers ==
  [][\A m \in Msgs :
       (IsPublish(m) /\ marked'[m] > marked[m]) =>
         \A a \in AgentIds : hstate'[m][a] \notin {"created", "running"}]_vars

\* The on_response handler calls logged for m.
ResponseLog(m) == SelectSeq(ilog[m], LAMBDA e : e.pipe = "response")

\* C22: response via the queue.  The handle of a Send gets a success value
\* only in the step of the delivery task of its Response envelope, which was
\* put after the recipient's on_message returned, was dequeued by the
\* dispatcher and went through every on_response handler (each returned a
\* message); the value is what the last on_response handler returned (the
\* handler's return value when there are no intervention handlers).
C22_ResponseViaQueue ==
  [][\A m \in Msgs :
       (future[m].st # "result" /\ future'[m].st = "result") =>
         /\ tpc[m] = "rspawned"
         /\ invoked[m] = {env[m].recipient}
         /\ marked[m] = 1
         /\ Len(ResponseLog(m)) = nHandlers
         /\ \A i \in 1..nHandlers : /\ ResponseLog(m)[i].idx = i
                                     /\ ResponseLog(m)[i].out = "pass"
         /\ future'[m].val =
              (IF nHandlers = 0 THEN Reply(env[m].message)
               ELSE HandlerResult("response", nHandlers, ResponseLog(m)[nHandlers].arg))
         /\ nHandlers > 0 => future'[m].val # Reply(env[m].message)]_vars

\* C22 witness: with two intervention handlers, a handle holds the value the
\* second on_response handler returned.
C22_Witness ==
  \E m \in Msgs :
    /\ nHandlers = 2
    /\ future[m].st = "result"
    /\ Len(ResponseLog(m)) = 2
    /\ future[m].val = HandlerResult("response", 2, ResponseLog(m)[2].arg)
    /\ tpc[m] = "finished"

\* An intervention handler raised in this step, in a pipeline of message m.
HandlerThrew(m) ==
  /\ Len(ilog'[m]) > Len(ilog[m])
  /\ ilog'[m][Len(ilog'[m])].out = "raise"

\* C23: intervention errors.  In the step in which an intervention handler
\* raises, the handle of the Send (for its Send or its Response envelope)
\* is settled with that error and a Publish envelope is discarded; no
\* delivery task is spawned for the envelope, no on_message is invoked for
\* it, and the dispatcher goes on to wait for the next envelope.
C23_InterventionErrors ==
  [][\A m \in Msgs :
       HandlerThrew(m) =>
         /\ IsSend(m) => future'[m] = WithException(PendingFuture, "InterventionError")
         /\ IsPublish(m) => future'[m] = NoFuture
         /\ tpc'[m] \in {"dropped", "rdropped"}
         /\ invoked'[m] = invoked[m]
         /\ dpc' = "get"]_vars

\* C24: the run context exists iff the dispatcher loop is running.  While
\* a run context exists the dispatcher task is alive (waiting in get() or
\* running an intervention pipeline) unless a stop*() call in progress has
\* ended it: nothing an envelope holds or leads to ends the loop.  While no
\* run context exists (before start(), after a stop*() call returned) there
\* is no dispatcher task.
C24_RunContextIffLoop ==
  /\ runContext => \/ dpc \in {"get", "intercept"}
                   \/ dpc = "exited" /\ spc = "await_run"
  /\ ~runContext => dpc = "none"

\* The register() calls (with deferred subscriptions) that succeeded for t.
Succeeded(t) == {c \in RegCalls : rcall[c] = [pc |-> "done", type |-> t]}

\* C25: factories are immutable per entry.  Once a type is bound to a
\* factory it stays bound to that factory, whatever the interleaving of the
\* register / register_factory calls for the type, and at most one of the
\* calls that suspend for their subscriptions succeeds for a type.
C25_FactoriesImmutable ==
  [][\A t \in Types :
       /\ t \in factories => (t \in factories' /\ binder'[t] = binder[t])
       /\ Cardinality(Succeeded(t))' <= 1]_vars

\* C26: a Send that failed fast with "Recipient not found" is never
\* delivered.  For a message whose handle holds that error, no step invokes
\* an agent's on_message, and no step of its delivery task calls a factory
\* or caches an instance, also when the recipient's type was registered
\* after the send_message call.
C26_FailedFastNeverDelivered ==
  [][\A m \in Msgs :
       future[m] = RecipientNotFound =>
         /\ invoked'[m] = {}
         /\ (SendStart(m) \/ SendFactoryDone(m)) =>
              UNCHANGED <<factoryCalls, instances>>]_vars

\* The loop of Publish m was left while a recipient was being resolved.
RecipientResolutionFailed(m) ==
  pphase[m] = "recipient" /\ pidx[m] \in 1..Len(precs[m])

\* C27: delivery of a Publish does not depend on resolving its sender.
\* Once the delivery of a Publish with a sender has ended with no handler
\* of it still to run or running, and no recipient failed to resolve, every
\* matched recipient other than the sender has had its on_message invoked,
\* whether or not the sender's type is registered or its factory succeeds.
C27_SenderIndependentDelivery ==
  \A m \in Msgs :
    (/\ IsPublish(m)
     /\ env[m].sender # NoSender
     /\ tpc[m] \in {"finished", "crashed"}
     /\ \A a \in AgentIds : hstate[m][a] \notin {"created", "running"}
     /\ ~RecipientResolutionFailed(m))
    => \A a \in Surviving(m) : a \in invoked[m]

\* Send m was put on the queue before the stop_when_idle() call in progress.
SentBeforeCall(m) == IsSend(m) /\ m < idleFrom /\ tpc[m] # "rejected"

\* C28: in the step in which a stop_when_idle() call returns, no Send that
\* was put on the queue before the call has a pending handle.
C28_IdleStopLeavesNoPendingSend ==
  [][(/\ skind = "idle"
      /\ spc = "await_run"
      /\ spc' = "none"
      /\ lastStop'[1] = "idle") =>
       \A m \in Msgs : SentBeforeCall(m) => ~IsPending(future[m])]_vars

\* The Send or Publish envelope of m was dequeued from a queue that has
\* since been replaced, and its delivery task has not ended.
InFlightFromEarlierQueue(m) ==
  m < qFirst /\ tpc[m] \in {"spawned", "factory", "handler", "loop", "gather"}

\* C29: across stop() and restart, a queue never has more task_done() calls
\* than put() calls, and a delivery task whose envelope was dequeued from a
\* queue that stop() has replaced neither marks an envelope done on the
\* replacement queue nor puts a Response on it.
C29_QueueAffinity ==
  [][/\ dones' <= puts'
     /\ \A m \in Msgs :
          InFlightFromEarlierQueue(m) =>
            /\ marked'[m] = marked[m]
            /\ ResponsesQueued(m)' = {}]_vars

====
